---- MODULE Spec2Model ----
(***************************************************************************)
(* Matchmaking queue of src/src/controllers/matchmaking.controller.js:     *)
(* the process-wide Map matchmakingQueue, the three request handlers       *)
(* startMatchmaking, cancelMatchmaking and checkMatchmakingStatus, cut at  *)
(* their awaits, and the setInterval sweep.  Node runs each stretch of a   *)
(* handler between two awaits without interruption, so each such stretch   *)
(* is one action.                                                          *)
(***************************************************************************)
EXTENDS Integers, Sequences, FiniteSets, TLC

\* ------------------------------------------------------------- bounds
\* Number of start and status requests that arrive in a behaviour (cancels are free).
MaxCalls == 1
\* Number of clock advances in a behaviour.
MaxTicks == 6

\* Player identities (req.user.id), game type tags, ratings in the user table.
Users == {"u1", "u2", "u3"}
GameTypes == {"ayo", "ludo"}
UserRating(u) == IF u = "u2" THEN 1050 ELSE 1000

\* ------------------------------------------------------------- constants
\* const TIMEOUT = 5 * 60 * 1000
TIMEOUT == 5 * 60 * 1000
\* setInterval(..., 60000); the clock is observed at this granularity
PERIOD == 60000
\* new Date(Date.now() - 30000)
RECENT == 30000
\* let smallestDifference = Infinity
Infinity == -1


VARIABLES
    matchmakingQueue,   \* the Map, as its entries in insertion order
    games,              \* rows of the game table created by these handlers
    now,                \* Date.now()
    reqs,               \* the handlers: arrived, suspended at an await, or done
    resp,               \* what the last step sent: a response, the sweep's log lines, or nothing
    picked,             \* per player: times the current entry was selected as bestMatch
    evictedTs,          \* the latest timestamp among the entries sweeps removed, -1 if none
    burst,              \* the gameType each player asked for in the initial burst of calls
    ratingOf,           \* the rating column of the user table, per player
    history             \* per player: startMatchmaking calls made, and the number of games
                        \* at the last successful cancel not followed by such a call (-1:
                        \* none); << >> in behaviours that keep no history

vars == <<matchmakingQueue, games, now, reqs, resp, picked, evictedTs, burst, ratingOf, history>>

\* ------------------------------------------------------------- the Map
null == [userId |-> "null"]
NoResp == [kind |-> "none"]
Idle == [pc |-> "idle"]

\* Mutant of Has: the key never compares equal (an id kept as number here, string there).
HasNever(q, userId) == FALSE

\* matchmakingQueue.has(userId)
Has(q, userId) == \E i \in 1..Len(q) : q[i].userId = userId

\* Mutant of Delete: the whole Map is emptied (clear() for delete()).
DeleteAll(q, userId) == << >>

\* matchmakingQueue.delete(userId)
Delete(q, userId) == SelectSeq(q, LAMBDA e : e.userId # userId)

\* matchmakingQueue.set(userId, data): a present key keeps its place
Set(q, userId, data) ==
    LET e == [userId |-> userId, rating |-> data.rating,
              timestamp |-> data.timestamp, gameType |-> data.gameType]
    IN  IF Has(q, userId)
        THEN [i \in 1..Len(q) |-> IF q[i].userId = userId THEN e ELSE q[i]]
        ELSE Append(q, e)

\* matchmakingQueue.size
Size(q) == Len(q)

\* ------------------------------------------------------------- findBestMatch
\* Math.abs(rating1 - rating2)
getRatingDifference(rating1, rating2) ==
    IF rating1 >= rating2 THEN rating1 - rating2 ELSE rating2 - rating1

\* Mutant of Smaller: the running minimum starts at a number no difference is under.
SmallerNoInfinity(difference, smallestDifference) == difference < smallestDifference

\* Mutant of Smaller: <= for <, a later entry at the same distance wins.
SmallerOrEqual(difference, smallestDifference) ==
    IF smallestDifference = Infinity THEN TRUE ELSE difference <= smallestDifference

\* difference < smallestDifference, smallestDifference starting at Infinity
Smaller(difference, smallestDifference) ==
    IF smallestDifference = Infinity THEN TRUE ELSE difference < smallestDifference

\* Mutant of Skipped: the requester's own entry is not excluded.
SkippedTypeOnly(e, gameType, excludeUserId) == e.gameType # gameType

\* if (userId === excludeUserId || data.gameType !== gameType) continue
Skipped(e, gameType, excludeUserId) ==
    e.userId = excludeUserId \/ e.gameType # gameType

RECURSIVE Scan(_, _, _, _, _, _, _)
Scan(q, i, playerRating, gameType, excludeUserId, bestMatch, smallestDifference) ==
    IF i > Len(q) THEN bestMatch
    ELSE IF Skipped(q[i], gameType, excludeUserId)
         THEN Scan(q, i + 1, playerRating, gameType, excludeUserId,
                   bestMatch, smallestDifference)
         ELSE LET difference == getRatingDifference(playerRating, q[i].rating)
              IN  IF Smaller(difference, smallestDifference)
                  THEN Scan(q, i + 1, playerRating, gameType, excludeUserId,
                            q[i], difference)
                  ELSE Scan(q, i + 1, playerRating, gameType, excludeUserId,
                            bestMatch, smallestDifference)

\* Mutant of findBestMatch: the search never finds anyone.
findBestMatchNobody(q, playerRating, gameType, excludeUserId) == null

findBestMatch(q, playerRating, gameType, excludeUserId) ==
    Scan(q, 1, playerRating, gameType, excludeUserId, null, Infinity)

\* ------------------------------------------------------------- requests
\* The lowest free handler slot: requests are numbered in arrival order.
FreeSlot == CHOOSE i \in DOMAIN reqs : reqs[i] = Idle /\ \A j \in 1..(i - 1) : reqs[j] # Idle

\* A handler that has sent its response.
Done(r) == [pc |-> "done"]

\* res.json / res.status(..).json: the body fields the handlers set
Reply(i, status, matched, inQueue, queuePosition, game) ==
    [kind |-> reqs[i].kind, userId |-> reqs[i].userId,
     gameType |-> reqs[i].gameType, status |-> status, matched |-> matched,
     inQueue |-> inQueue, queuePosition |-> queuePosition, game |-> game,
     removedOld |-> FALSE]

Absent == "absent"
NoGame == [gameType |-> "none"]

\* Mutant of Failure: the catch block answers like an empty search.
FailureSwallowed(i) ==
    [kind |-> reqs[i].kind, userId |-> reqs[i].userId,
     gameType |-> reqs[i].gameType, status |-> 200, matched |-> FALSE,
     inQueue |-> Absent, queuePosition |-> Absent, game |-> NoGame,
     removedOld |-> FALSE]

\* catch (error) { res.status(500).json({ success: false, message }) }
Failure(i) ==
    [kind |-> reqs[i].kind, userId |-> reqs[i].userId,
     gameType |-> reqs[i].gameType, status |-> 500, matched |-> Absent,
     inQueue |-> Absent, queuePosition |-> Absent, game |-> NoGame,
     removedOld |-> FALSE]

\* console.log(`User ${userId} already in queue, removing old entry`), when that
\* is all the step sends
LogRemovedOld(userId) == [kind |-> "log", userId |-> userId, removedOld |-> TRUE]


\* Mutant of NewGame: the second slot moves first.
NewGameSecondStarts(gameType, player1Id, player2Id) ==
    [gameType |-> gameType, player1Id |-> player1Id, player2Id |-> player2Id,
     status |-> "IN_PROGRESS", currentTurn |-> player2Id, startedAt |-> now]

\* prisma.game.create({ data: { gameType, player1Id, player2Id, status, currentTurn, startedAt } })
NewGame(gameType, player1Id, player2Id) ==
    [gameType |-> gameType, player1Id |-> player1Id, player2Id |-> player2Id,
     status |-> "IN_PROGRESS", currentTurn |-> player1Id, startedAt |-> now]

\* ------------------------------------------------------------- startMatchmaking
\* The behaviour keeps a history of the calls.
Tracked == DOMAIN history # {}

\* POST /start arrives; the handler runs to its first await (user lookup).
StartRequest(u, g) ==
    /\ \E i \in DOMAIN reqs : reqs[i] = Idle
    /\ reqs' = [reqs EXCEPT ![FreeSlot] =
                 [pc |-> "findUser", kind |-> "start", userId |-> u,
                  gameType |-> g, bestMatch |-> null, opponent |-> Absent]]
    /\ resp' = NoResp
    /\ history' = IF Tracked
                  THEN [history EXCEPT ![u].enqueues = @ + 1, ![u].cancelled = -1]
                  ELSE history
    /\ UNCHANGED <<matchmakingQueue, games, now, picked, evictedTs, burst, ratingOf>>

\* The queue after "if (matchmakingQueue.has(userId)) matchmakingQueue.delete(userId)"
WithoutOld(q, userId) == IF Has(q, userId) THEN Delete(q, userId) ELSE q

\* Mutant of RemoveMatch: the candidate stays in the Map while the game is created.
RemoveMatchNever(q, bestMatch) == q

\* matchmakingQueue.delete(bestMatch.userId)
RemoveMatch(q, bestMatch) == Delete(q, bestMatch.userId)

\* Mutant of QueueData: the schema's default rating, not the one looked up.
QueueDataDefaultRating(rating, gameType) ==
    [rating |-> 1000, timestamp |-> now, gameType |-> gameType]

\* Mutant of QueueData: the entry is stamped with the process start, not Date.now().
QueueDataStale(rating, gameType) ==
    [rating |-> rating, timestamp |-> 0, gameType |-> gameType]

\* { rating: user.rating, timestamp: Date.now(), gameType }
QueueData(rating, gameType) ==
    [rating |-> rating, timestamp |-> now, gameType |-> gameType]

\* Mutant of QueuePosition: a zero-based position.
QueuePositionZeroBased(q) == Size(q) - 1

\* queuePosition: matchmakingQueue.size
QueuePosition(q) == Size(q)

\* The user lookup returned: 404 for no user, else the synchronous stretch up to
\* the opponent lookup (a match) or to the "waiting" response (no match).
StartFindUser(i, outcome) ==
    /\ reqs[i].pc = "findUser" /\ reqs[i].kind = "start"
    /\ LET r == reqs[i]
           q1 == WithoutOld(matchmakingQueue, r.userId)
           bestMatch == findBestMatch(q1, ratingOf[r.userId], r.gameType, r.userId)
       IN  CASE outcome = "throws" ->
                  /\ reqs' = [reqs EXCEPT ![i] = Done(r)]
                  /\ resp' = Failure(i)
                  /\ UNCHANGED <<matchmakingQueue, games, now, picked, evictedTs, burst, ratingOf, history>>
             [] outcome = "null" ->
                  /\ reqs' = [reqs EXCEPT ![i] = Done(r)]
                  /\ resp' = Reply(i, 404, Absent, Absent, Absent, NoGame)
                  /\ UNCHANGED <<matchmakingQueue, games, now, picked, evictedTs, burst, ratingOf, history>>
             [] outcome = "user" /\ bestMatch # null ->
                  /\ matchmakingQueue' = RemoveMatch(q1, bestMatch)
                  /\ picked' = [picked EXCEPT ![bestMatch.userId] = @ + 1]
                  /\ reqs' = [reqs EXCEPT ![i].pc = "findOpponent",
                                          ![i].bestMatch = bestMatch]
                  /\ resp' = IF Has(matchmakingQueue, r.userId)
                             THEN LogRemovedOld(r.userId) ELSE NoResp
                  /\ UNCHANGED <<games, now, evictedTs, burst, ratingOf, history>>
             [] outcome = "user" /\ bestMatch = null ->
                  /\ matchmakingQueue' =
                        Set(q1, r.userId, QueueData(ratingOf[r.userId], r.gameType))
                  /\ picked' = [picked EXCEPT ![r.userId] = 0]
                  /\ reqs' = [reqs EXCEPT ![i] = Done(r)]
                  /\ resp' = [Reply(i, 200, FALSE, Absent,
                                    QueuePosition(matchmakingQueue'), NoGame)
                                EXCEPT !.removedOld = Has(matchmakingQueue, r.userId)]
                  /\ UNCHANGED <<games, now, evictedTs, burst, ratingOf, history>>

\* The opponent lookup returned a user or null: const opponent is assigned and
\* never read, the handler goes on to prisma.game.create either way.
StartFindOpponent(i, outcome) ==
    /\ reqs[i].pc = "findOpponent" /\ reqs[i].kind = "start"
    /\ IF outcome = "throws"
       THEN /\ reqs' = [reqs EXCEPT ![i] = Done(reqs[i])]
            /\ resp' = Failure(i)
       ELSE /\ reqs' = [reqs EXCEPT ![i].pc = "createGame", ![i].opponent = outcome]
            /\ resp' = NoResp
    /\ UNCHANGED <<matchmakingQueue, games, now, picked, evictedTs, burst, ratingOf, history>>

\* prisma.game.create returned: the waiting player is player1 and moves first.
StartCreateGame(i, outcome) ==
    /\ reqs[i].pc = "createGame" /\ reqs[i].kind = "start"
    /\ LET r == reqs[i]
           game == NewGame(r.gameType, r.bestMatch.userId, r.userId)
       IN  IF outcome = "throws"
           THEN /\ resp' = Failure(i)
                /\ games' = games
           ELSE /\ games' = Append(games, game)
                /\ resp' = Reply(i, 200, TRUE, Absent, Absent, game)
    /\ reqs' = [reqs EXCEPT ![i] = Done(reqs[i])]
    /\ UNCHANGED <<matchmakingQueue, now, picked, evictedTs, burst, ratingOf, history>>

\* ------------------------------------------------------------- cancelMatchmaking
\* POST /cancel: no await, the whole handler is one step.
CancelReply(u, status) ==
    [kind |-> "cancel", userId |-> u, gameType |-> Absent,
     status |-> status, matched |-> Absent, inQueue |-> Absent,
     queuePosition |-> Absent, game |-> NoGame, removedOld |-> FALSE]

cancelMatchmaking(u) ==
    /\ IF Has(matchmakingQueue, u)
       THEN /\ matchmakingQueue' = Delete(matchmakingQueue, u)
            /\ resp' = CancelReply(u, 200)
            /\ history' = IF Tracked
                          THEN [history EXCEPT ![u].cancelled = Len(games)]
                          ELSE history
       ELSE /\ matchmakingQueue' = matchmakingQueue
            /\ resp' = CancelReply(u, 400)
            /\ history' = history
    /\ UNCHANGED <<games, now, reqs, picked, evictedTs, burst, ratingOf>>

\* ------------------------------------------------------------- checkMatchmakingStatus
\* A poll by a player without an entry, suspended at prisma.game.findFirst: the
\* query carries new Date(Date.now() - 30000), taken when the query was built.
Poll(u, g) ==
    [pc |-> "findRecent", kind |-> "status", userId |-> u, gameType |-> g,
     bestMatch |-> null, since |-> now - RECENT]

\* GET /status arrives; the handler tests has(userId) and runs to its first await.
StatusRequest(u, g) ==
    /\ \E i \in DOMAIN reqs : reqs[i] = Idle
    /\ reqs' = [reqs EXCEPT ![FreeSlot] =
                 IF Has(matchmakingQueue, u)
                 THEN [pc |-> "findUser", kind |-> "status", userId |-> u,
                       gameType |-> g, bestMatch |-> null]
                 ELSE Poll(u, g)]
    /\ resp' = NoResp
    /\ UNCHANGED <<matchmakingQueue, games, now, picked, evictedTs, burst, ratingOf, history>>

\* Mutant of IsRecentGame: the status filter is left out of the query.
IsRecentGameAnyStatus(gm, userId, gameType, since) ==
    /\ gm.player1Id = userId \/ gm.player2Id = userId
    /\ gm.gameType = gameType
    /\ gm.startedAt >= since

\* where: { OR: [player1Id, player2Id], gameType, status, startedAt: { gte: since } }
IsRecentGame(gm, userId, gameType, since) ==
    /\ gm.player1Id = userId \/ gm.player2Id = userId
    /\ gm.gameType = gameType
    /\ gm.status = "IN_PROGRESS"
    /\ gm.startedAt >= since

\* findFirst ... orderBy: { startedAt: 'desc' }: the rows it may return
RecentGames(userId, gameType, since) ==
    {k \in 1..Len(games) :
        /\ IsRecentGame(games[k], userId, gameType, since)
        /\ \A l \in 1..Len(games) :
              IsRecentGame(games[l], userId, gameType, since)
                  => games[l].startedAt <= games[k].startedAt}

\* The recent-game lookup returned.
StatusFindRecent(i, outcome) ==
    /\ reqs[i].pc = "findRecent" /\ reqs[i].kind = "status"
    /\ LET r == reqs[i]
           found == RecentGames(r.userId, r.gameType, r.since)
       IN  IF outcome = "throws"
           THEN resp' = Failure(i)
           ELSE IF found # {}
                THEN \E k \in found :
                        resp' = Reply(i, 200, TRUE, Absent, Absent, games[k])
                ELSE resp' = Reply(i, 200, FALSE, FALSE, Absent, NoGame)
    /\ reqs' = [reqs EXCEPT ![i] = Done(reqs[i])]
    /\ UNCHANGED <<matchmakingQueue, games, now, picked, evictedTs, burst, ratingOf, history>>

\* Mutant of RemoveBoth: only the candidate is taken out, the poller stays.
RemoveBothCandidateOnly(q, userId, bestMatch) == RemoveMatch(q, bestMatch)

\* matchmakingQueue.delete(userId); matchmakingQueue.delete(bestMatch.userId)
RemoveBoth(q, userId, bestMatch) == RemoveMatch(Delete(q, userId), bestMatch)

\* The user lookup returned: user.rating of a null user throws (caught: 500).
StatusFindUser(i, outcome) ==
    /\ reqs[i].pc = "findUser" /\ reqs[i].kind = "status"
    /\ LET r == reqs[i]
           bestMatch == findBestMatch(matchmakingQueue, ratingOf[r.userId],
                                      r.gameType, r.userId)
       IN  CASE outcome \in {"throws", "null"} ->
                  /\ reqs' = [reqs EXCEPT ![i] = Done(r)]
                  /\ resp' = Failure(i)
                  /\ UNCHANGED <<matchmakingQueue, games, now, picked, evictedTs, burst, ratingOf, history>>
             [] outcome = "user" /\ bestMatch # null ->
                  /\ matchmakingQueue' = RemoveBoth(matchmakingQueue, r.userId, bestMatch)
                  /\ picked' = [picked EXCEPT ![bestMatch.userId] = @ + 1]
                  /\ reqs' = [reqs EXCEPT ![i].pc = "createGame",
                                          ![i].bestMatch = bestMatch]
                  /\ resp' = NoResp
                  /\ UNCHANGED <<games, now, evictedTs, burst, ratingOf, history>>
             [] outcome = "user" /\ bestMatch = null ->
                  /\ reqs' = [reqs EXCEPT ![i] = Done(r)]
                  /\ resp' = Reply(i, 200, FALSE, TRUE, QueuePosition(matchmakingQueue), NoGame)
                  /\ UNCHANGED <<matchmakingQueue, games, now, picked, evictedTs, burst, ratingOf, history>>

\* prisma.game.create returned: the polling player is player1 and moves first.
StatusCreateGame(i, outcome) ==
    /\ reqs[i].pc = "createGame" /\ reqs[i].kind = "status"
    /\ LET r == reqs[i]
           game == NewGame(r.gameType, r.userId, r.bestMatch.userId)
       IN  IF outcome = "throws"
           THEN /\ resp' = Failure(i)
                /\ games' = games
           ELSE /\ games' = Append(games, game)
                /\ resp' = Reply(i, 200, TRUE, Absent, Absent, game)
    /\ reqs' = [reqs EXCEPT ![i] = Done(reqs[i])]
    /\ UNCHANGED <<matchmakingQueue, now, picked, evictedTs, burst, ratingOf, history>>

\* ------------------------------------------------------------- the sweep
\* Mutant of Expired: the subtraction the wrong way round.
ExpiredReversed(e, t) == e.timestamp - t > TIMEOUT

\* Mutant of Expired: >= for >, an entry exactly 5 minutes old goes too.
ExpiredOrEqual(e, t) == t - e.timestamp >= TIMEOUT

\* Mutant of Expired: the threshold one sweep period short.
ExpiredEarly(e, t) == t - e.timestamp > TIMEOUT - PERIOD

\* if (now - data.timestamp > TIMEOUT)
Expired(e, t) == t - e.timestamp > TIMEOUT

\* The latest timestamp among entries q and t
Newest(q, t) ==
    IF \E k \in 1..Len(q) : q[k].timestamp > t
    THEN CHOOSE m \in {q[k].timestamp : k \in 1..Len(q)} :
             \A k \in 1..Len(q) : q[k].timestamp <= m
    ELSE t

\* The setInterval callback: one pass over the Map.
Sweep ==
    /\ matchmakingQueue' = SelectSeq(matchmakingQueue, LAMBDA e : ~Expired(e, now))
    /\ resp' = [kind |-> "sweep",
                removed |-> {matchmakingQueue[k].userId : k \in
                               {j \in 1..Len(matchmakingQueue) :
                                   Expired(matchmakingQueue[j], now)}}]
    /\ evictedTs' = Newest(SelectSeq(matchmakingQueue, LAMBDA e : Expired(e, now)), evictedTs)
    /\ UNCHANGED <<games, now, reqs, picked, burst, ratingOf, history>>

\* Date.now() moves on.
Tick ==
    /\ now < MaxTicks * PERIOD
    /\ now' = now + PERIOD
    /\ resp' = NoResp
    /\ UNCHANGED <<matchmakingQueue, games, reqs, picked, evictedTs, burst, ratingOf, history>>

Outcomes == {"user", "null", "throws"}

\* An entry as startMatchmaking inserts it for player u at time 0.
Waiting(u, g) ==
    [userId |-> u, rating |-> UserRating(u), timestamp |-> 0, gameType |-> g]

\* The queues earlier startMatchmaking calls can have left: an entry is only
\* inserted when no other player waits for its gameType.
LeftQueues ==
    {<< >>}
    \cup {<<Waiting(u, g)>> : u \in Users, g \in GameTypes}
    \cup {<<Waiting(uv[1], gh[1]), Waiting(uv[2], gh[2])>> :
             uv \in {x \in Users \X Users : x[1] # x[2]},
             gh \in {x \in GameTypes \X GameTypes : x[1] # x[2]}}

\* The process some time after start-up: earlier calls have left their entries,
\* no handler is running.
Init ==
    /\ matchmakingQueue \in LeftQueues
    /\ games = << >>
    /\ now = 0
    /\ reqs = [r \in 1..MaxCalls |-> Idle]
    /\ resp = NoResp
    /\ picked = [u \in Users |-> 0]
    /\ evictedTs = -1
    /\ burst = [u \in Users |-> Absent]
    /\ ratingOf = [u \in Users |-> UserRating(u)]
    /\ history = << >>

Next ==
    \/ \E u \in Users, g \in GameTypes : StartRequest(u, g)
    \/ \E i \in DOMAIN reqs, o \in Outcomes : StartFindUser(i, o)
    \/ \E i \in DOMAIN reqs, o \in Outcomes : StartFindOpponent(i, o)
    \/ \E i \in DOMAIN reqs, o \in {"game", "throws"} : StartCreateGame(i, o)
    \/ \E u \in Users : cancelMatchmaking(u)
    \/ \E u \in Users, g \in GameTypes : StatusRequest(u, g)
    \/ \E i \in DOMAIN reqs, o \in {"game", "throws"} : StatusFindRecent(i, o)
    \/ \E i \in DOMAIN reqs, o \in Outcomes : StatusFindUser(i, o)
    \/ \E i \in DOMAIN reqs, o \in {"game", "throws"} : StatusCreateGame(i, o)
    \/ Sweep
    \/ Tick

Spec == Init /\ [][Next]_vars

\* ------------------------------------------------------------- the burst
\* Right after start-up every player calls startMatchmaking at once: the Map is
\* empty and the three handlers are suspended at their user lookup.
Racers == <<"u1", "u2", "u3">>

InitRace ==
    /\ matchmakingQueue = << >>
    /\ games = << >>
    /\ now = 0
    /\ burst \in [Users -> GameTypes]
    /\ reqs = [k \in DOMAIN Racers |->
                 [pc |-> "findUser", kind |-> "start", userId |-> Racers[k],
                  gameType |-> burst[Racers[k]], bestMatch |-> null,
                  opponent |-> Absent]]
    /\ resp = NoResp
    /\ picked = [u \in Users |-> 0]
    /\ evictedTs = -1
    /\ ratingOf = [u \in Users |-> UserRating(u)]
    /\ history = << >>

\* The handlers of the burst run on, in any order; the collaborators answer.
NextRace ==
    \/ \E i \in DOMAIN reqs : StartFindUser(i, "user")
    \/ \E i \in DOMAIN reqs : StartFindOpponent(i, "user")
    \/ \E i \in DOMAIN reqs : StartCreateGame(i, "game")

SpecRace == InitRace /\ [][NextRace]_vars

\* ------------------------------------------------------------- ratings that change
\* PUT /profile with a rating in the body: prisma.user.update writes the rating
\* column of the caller's row.
updateProfile(u, rating) ==
    /\ ratingOf[u] # rating
    /\ ratingOf' = [ratingOf EXCEPT ![u] = rating]
    /\ resp' = NoResp
    /\ UNCHANGED <<matchmakingQueue, games, now, reqs, picked, evictedTs, burst, history>>

\* A minute after the waiting players enqueued, no handler running.
InitRating ==
    /\ matchmakingQueue \in LeftQueues
    /\ games = << >>
    /\ now = PERIOD
    /\ reqs = [r \in 1..MaxCalls |-> Idle]
    /\ resp = NoResp
    /\ picked = [u \in Users |-> 0]
    /\ evictedTs = -1
    /\ burst = [u \in Users |-> Absent]
    /\ ratingOf = [u \in Users |-> UserRating(u)]
    /\ history = << >>

\* Players enqueue and poll, the collaborators answer, and ratings move between
\* the values in the table.
NextRating ==
    \/ \E u \in Users, g \in GameTypes : StartRequest(u, g)
    \/ \E i \in DOMAIN reqs : StartFindUser(i, "user")
    \/ \E i \in DOMAIN reqs : StartFindOpponent(i, "user")
    \/ \E i \in DOMAIN reqs : StartCreateGame(i, "game")
    \/ \E u \in Users, g \in GameTypes : StatusRequest(u, g)
    \/ \E i \in DOMAIN reqs : StatusFindRecent(i, "game")
    \/ \E i \in DOMAIN reqs : StatusFindUser(i, "user")
    \/ \E i \in DOMAIN reqs : StatusCreateGame(i, "game")
    \/ \E u \in Users, v \in Users : updateProfile(u, UserRating(v))

SpecRating == InitRating /\ [][NextRating]_vars

\* ------------------------------------------------------------- the timer at work
\* Mutant of TimerFires: the timer was cleared, time passes without a sweep.
TimerCleared ==
    /\ now < MaxTicks * PERIOD
    /\ now' = now + PERIOD
    /\ resp' = [kind |-> "sweep", removed |-> {}]
    /\ UNCHANGED <<matchmakingQueue, games, reqs, picked, evictedTs, burst, ratingOf, history>>

\* setInterval(..., 60000) on schedule: a period passes and the callback runs.
TimerFires ==
    /\ now < MaxTicks * PERIOD
    /\ now' = now + PERIOD
    /\ matchmakingQueue' = SelectSeq(matchmakingQueue, LAMBDA e : ~Expired(e, now'))
    /\ resp' = [kind |-> "sweep",
                removed |-> {matchmakingQueue[k].userId : k \in
                               {j \in 1..Len(matchmakingQueue) :
                                   Expired(matchmakingQueue[j], now')}}]
    /\ evictedTs' = Newest(SelectSeq(matchmakingQueue, LAMBDA e : Expired(e, now')), evictedTs)
    /\ UNCHANGED <<games, reqs, picked, burst, ratingOf, history>>

\* An entry inserted now is still seen to reach the age of eviction before the
\* clock of the model stops.
Early == now + TIMEOUT + PERIOD <= MaxTicks * PERIOD

\* Some players wait, and one more call of any kind is to come (cancels are free).
InitLive ==
    /\ matchmakingQueue \in LeftQueues
    /\ games = << >>
    /\ now = 0
    /\ reqs = <<Idle>>
    /\ resp = NoResp
    /\ picked = [u \in Users |-> 0]
    /\ evictedTs = -1
    /\ burst = [u \in Users |-> Absent]
    /\ ratingOf = [u \in Users |-> UserRating(u)]
    /\ history = << >>

\* The handlers as before, the calls of startMatchmaking falling in the early
\* part of the run, and the timer.
NextLive ==
    \/ Early /\ \E u \in Users, g \in GameTypes : StartRequest(u, g)
    \/ Early /\ \E i \in DOMAIN reqs, o \in Outcomes : StartFindUser(i, o)
    \/ \E i \in DOMAIN reqs, o \in Outcomes : StartFindOpponent(i, o)
    \/ \E i \in DOMAIN reqs, o \in {"game", "throws"} : StartCreateGame(i, o)
    \/ \E u \in Users : cancelMatchmaking(u)
    \/ \E u \in Users, g \in GameTypes : StatusRequest(u, g)
    \/ \E i \in DOMAIN reqs, o \in {"game", "throws"} : StatusFindRecent(i, o)
    \/ \E i \in DOMAIN reqs, o \in Outcomes : StatusFindUser(i, o)
    \/ \E i \in DOMAIN reqs, o \in {"game", "throws"} : StatusCreateGame(i, o)
    \/ TimerFires

\* Time advances and the timer keeps firing.
SpecLive == InitLive /\ [][NextLive]_vars /\ WF_vars(TimerFires)

\* ------------------------------------------------------------- the calls on record
\* Each waiting player has made the one startMatchmaking call that left its
\* entry; nobody has cancelled.
HistoryOf(q) ==
    [u \in Users |-> [enqueues |-> IF Has(q, u) THEN 1 ELSE 0, cancelled |-> -1]]

\* Some players wait, no game has been created yet, and a few more calls are to
\* come, which may overlap.
InitHistory ==
    /\ matchmakingQueue \in LeftQueues
    /\ games = << >>
    /\ now = 0
    /\ reqs = [r \in 1..(MaxCalls + 2) |-> Idle]
    /\ resp = NoResp
    /\ picked = [u \in Users |-> 0]
    /\ evictedTs = -1
    /\ burst = [u \in Users |-> Absent]
    /\ ratingOf = [u \in Users |-> UserRating(u)]
    /\ history = HistoryOf(matchmakingQueue)

\* The three handlers, suspended and resumed in any order, the collaborators
\* answering.
NextHistory ==
    \/ \E u \in Users, g \in GameTypes : StartRequest(u, g)
    \/ \E i \in DOMAIN reqs : StartFindUser(i, "user")
    \/ \E i \in DOMAIN reqs : StartFindOpponent(i, "user")
    \/ \E i \in DOMAIN reqs : StartCreateGame(i, "game")
    \/ \E u \in Users : cancelMatchmaking(u)
    \/ \E u \in Users, g \in GameTypes : StatusRequest(u, g)
    \/ \E i \in DOMAIN reqs : StatusFindRecent(i, "game")
    \/ \E i \in DOMAIN reqs : StatusFindUser(i, "user")
    \/ \E i \in DOMAIN reqs : StatusCreateGame(i, "game")

SpecHistory == InitHistory /\ [][NextHistory]_vars

\* ------------------------------------------------------------- the late poll
\* A row of the game table: created IN_PROGRESS by a match, COMPLETED once
\* the game controller has closed it.
Row(gameType, players, status, startedAt) ==
    [gameType |-> gameType, player1Id |-> players[1], player2Id |-> players[2],
     status |-> status, currentTurn |-> players[1], startedAt |-> startedAt]

Rows ==
    {Row(g, p, st, t) :
        g \in GameTypes,
        p \in {<<"u1", "u2">>, <<"u2", "u1">>, <<"u2", "u3">>},
        st \in {"IN_PROGRESS", "COMPLETED"},
        t \in {0, 1}}

\* The game table after up to two earlier matches.
Tables == {<< >>} \cup {<<a>> : a \in Rows} \cup {<<a, b>> : a \in Rows, b \in Rows}

\* Half a minute or so after those matches a player without an entry polls: the
\* handler is suspended at prisma.game.findFirst, nobody or one player waits.
InitPoll ==
    /\ matchmakingQueue \in {q \in LeftQueues : Len(q) <= 1}
    /\ games \in Tables
    /\ now \in {RECENT, RECENT + 1}
    /\ \E u \in Users, g \in GameTypes :
          /\ ~Has(matchmakingQueue, u)
          /\ reqs = <<Poll(u, g)>>
    /\ resp = NoResp
    /\ picked = [u \in Users |-> 0]
    /\ evictedTs = -1
    /\ burst = [u \in Users |-> Absent]
    /\ ratingOf = [u \in Users |-> UserRating(u)]
    /\ history = << >>

\* The lookup answers, sooner or later.
NextPoll ==
    \/ \E i \in DOMAIN reqs, o \in {"game", "throws"} : StatusFindRecent(i, o)
    \/ Tick

SpecPoll == InitPoll /\ [][NextPoll]_vars

\* ------------------------------------------------------------- the search alone
\* Ratings entries and callers can carry (the user table's rating column changes
\* with every finished game).
Ratings == {1000, 1050, 1100, 1200}

\* Every Map over the players: any players, in any insertion order, each entry
\* with any rating and gameType.
Entry(u, rating, g) == [userId |-> u, rating |-> rating, timestamp |-> 0, gameType |-> g]
Entries == {Entry(u, rt, g) : u \in Users, rt \in Ratings, g \in GameTypes}
Maps ==
    {<< >>} \cup {<<a>> : a \in Entries}
    \cup {x \in Entries \X Entries : x[1].userId # x[2].userId}
    \cup {x \in Entries \X Entries \X Entries :
             /\ x[1].userId # x[2].userId
             /\ x[1].userId # x[3].userId
             /\ x[2].userId # x[3].userId}

\* The players that call: those above and one more, who never has an entry.
Callers == Users \cup {"u4"}

\* A call findBestMatch(playerRating, gameType, excludeUserId) about to run.
InitSearch ==
    /\ matchmakingQueue \in Maps
    /\ games = << >>
    /\ now = 0
    /\ \E rt \in Ratings, g \in GameTypes, u \in Callers :
          reqs = <<[pc |-> "search", kind |-> "search", playerRating |-> rt,
                    gameType |-> g, excludeUserId |-> u]>>
    /\ resp = NoResp
    /\ picked = [u \in Users |-> 0]
    /\ evictedTs = -1
    /\ burst = [u \in Users |-> Absent]
    /\ ratingOf = [u \in Users |-> UserRating(u)]
    /\ history = << >>

\* The call runs and returns bestMatch.
Search ==
    /\ reqs[1].pc = "search"
    /\ resp' = [kind |-> "search",
                bestMatch |-> findBestMatch(matchmakingQueue, reqs[1].playerRating,
                                            reqs[1].gameType, reqs[1].excludeUserId)]
    /\ reqs' = [reqs EXCEPT ![1].pc = "returned"]
    /\ UNCHANGED <<matchmakingQueue, games, now, picked, evictedTs, burst, ratingOf, history>>

SpecSearch == InitSearch /\ [][Search]_vars

\* ------------------------------------------------------------- properties
AllDone == \A i \in DOMAIN reqs : reqs[i].pc = "done"

\* Exactly one pair of players of the burst asked for the same gameType.
OnePair ==
    Cardinality({pr \in SUBSET Users :
                    /\ Cardinality(pr) = 2
                    /\ \A u \in pr, v \in pr : burst[u] = burst[v]}) = 1

\* C1: in a burst of concurrent startMatchmaking calls, under every interleaving
\* of the handlers at their awaits, no waiting entry is selected as bestMatch by
\* two calls; and when exactly one pair of the three callers is compatible, the
\* finished burst has created exactly one game.
C1_NoDoubleMatch ==
    /\ \A u \in Users : picked[u] <= 1
    /\ \A i \in DOMAIN reqs, j \in DOMAIN reqs :
          (i # j /\ reqs[i].pc \in {"findOpponent", "createGame"}
                 /\ reqs[j].pc \in {"findOpponent", "createGame"})
             => reqs[i].bestMatch.userId # reqs[j].bestMatch.userId
    /\ OnePair => Len(games) <= 1
    /\ (OnePair /\ AllDone) => Len(games) = 1

\* The burst with one compatible pair has finished: one game, its waiting player
\* selected once, the third player left waiting.
C1_Witness ==
    /\ OnePair /\ AllDone
    /\ Len(games) = 1
    /\ picked[games[1].player1Id] = 1
    /\ Len(matchmakingQueue) = 1

\* C2: the queue never holds two entries for one playerId, and after a
\* startMatchmaking call that ends "waiting" the caller has exactly one entry,
\* also when it had one before the call.
C2_OneEntryPerPlayer ==
    /\ \A k \in 1..Len(matchmakingQueue), l \in 1..Len(matchmakingQueue) :
          matchmakingQueue[k].userId = matchmakingQueue[l].userId => k = l
    /\ (resp.kind = "start" /\ resp.status = 200 /\ resp.matched = FALSE)
          => Cardinality({k \in 1..Len(matchmakingQueue) :
                             matchmakingQueue[k].userId = resp.userId}) = 1

\* A player that was in the queue has called again and waits: one entry, next to
\* another player's.
C2_Witness ==
    /\ resp.kind = "start" /\ resp.status = 200
    /\ resp.matched = FALSE /\ resp.removedOld
    /\ Len(matchmakingQueue) = 2
    /\ \E k \in 1..Len(matchmakingQueue) : matchmakingQueue[k].userId = resp.userId

\* C3: no game has the same player twice, no handler holds its own player as
\* bestMatch, and a status poll by the only player in the queue creates no game.
C3_NoSelfMatch ==
    /\ \A k \in 1..Len(games) : games[k].player1Id # games[k].player2Id
    /\ \A i \in DOMAIN reqs :
          reqs[i].pc \in {"findOpponent", "createGame"}
             => reqs[i].bestMatch.userId # reqs[i].userId
    /\ (resp.kind \in {"start", "status"} /\ resp.status = 200 /\ resp.matched = TRUE)
          => resp.game.player1Id # resp.game.player2Id

\* The only player in the queue has polled: the answer is "waiting", the entry is
\* still there and no game exists.
C3_Witness ==
    /\ resp.kind = "status" /\ resp.status = 200
    /\ resp.matched = FALSE /\ resp.inQueue = TRUE
    /\ Len(matchmakingQueue) = 1
    /\ matchmakingQueue[1].userId = resp.userId
    /\ games = << >>

\* The players with an entry in q, and the places of the entries of gameType g.
Ids(q) == {q[k].userId : k \in 1..Len(q)}
Partition(q, g) == {k \in 1..Len(q) : q[k].gameType = g}
Others(q, p) == SelectSeq(q, LAMBDA e : e.userId # p)

\* Handler i selects its bestMatch in this step.
Selects(i) ==
    /\ i \in DOMAIN reqs'
    /\ reqs[i].pc = "findUser"
    /\ reqs'[i].pc \in {"findOpponent", "createGame"}

\* Handler i of startMatchmaking gets its game from prisma.game.create in this step.
StartGetsGame(i) ==
    /\ i \in DOMAIN reqs'
    /\ reqs[i].pc = "createGame" /\ reqs[i].kind = "start"
    /\ reqs'[i].pc = "done"
    /\ resp'.status = 200

\* C4: the entries a match consumes (the bestMatch; for a status poll also the
\* polling player's own entry) carry the gameType of the request, which is the
\* gameType of the game created.
C4_NoCrossTypeMatch ==
    [][\A i \in DOMAIN reqs :
          Selects(i) =>
             \A k \in 1..Len(matchmakingQueue) :
                (\/ matchmakingQueue[k].userId = reqs'[i].bestMatch.userId
                 \/ /\ reqs[i].kind = "status"
                    /\ matchmakingQueue[k].userId = reqs[i].userId)
                   => matchmakingQueue[k].gameType = reqs[i].gameType]_vars

\* C5: when a startMatchmaking handler of player B runs its search while exactly
\* one entry, of another player A, waits for B's gameType, it selects A's entry
\* and leaves no entry of that gameType in the queue; it keeps that bestMatch to
\* the end, and its call, the collaborators answering, returns "matched" with a
\* game of exactly A and B.
C5_SecondPlayerMatchesFirst ==
    [][\A i \in DOMAIN reqs :
          /\ ( /\ i \in DOMAIN reqs'
               /\ reqs[i].pc = "findUser" /\ reqs[i].kind = "start"
               /\ reqs'[i] # reqs[i]
               /\ ~(resp'.kind = "start" /\ resp'.status \in {404, 500})
               /\ Cardinality(Partition(matchmakingQueue, reqs[i].gameType)) = 1
               /\ \A k \in Partition(matchmakingQueue, reqs[i].gameType) :
                     matchmakingQueue[k].userId # reqs[i].userId )
             => /\ reqs'[i].pc = "findOpponent"
                /\ \A k \in Partition(matchmakingQueue, reqs[i].gameType) :
                      reqs'[i].bestMatch = matchmakingQueue[k]
                /\ Partition(matchmakingQueue', reqs[i].gameType) = {}
          /\ ( /\ i \in DOMAIN reqs'
               /\ reqs[i].pc = "findOpponent" /\ reqs'[i].pc = "createGame" )
             => reqs'[i].bestMatch = reqs[i].bestMatch
          /\ StartGetsGame(i)
             => /\ resp'.kind = "start" /\ resp'.userId = reqs[i].userId
                /\ resp'.matched = TRUE
                /\ {resp'.game.player1Id, resp'.game.player2Id}
                      = {reqs[i].bestMatch.userId, reqs[i].userId}
                /\ reqs[i].bestMatch.userId # reqs[i].userId]_vars

\* B's call has returned "matched" with a waiting player, and nobody waits for
\* that gameType any more, while a player of the other gameType still waits.
C5_Witness ==
    /\ resp.kind = "start" /\ resp.status = 200 /\ resp.matched = TRUE
    /\ resp.game.player2Id = resp.userId
    /\ resp.game.player1Id # resp.userId
    /\ Partition(matchmakingQueue, resp.gameType) = {}
    /\ Len(matchmakingQueue) = 1

\* C6 as claimed: after a sweep, no entry aged 5 minutes or more is in the queue.
C6_EvictsAtFiveMinutes ==
    resp.kind = "sweep" =>
       \A k \in 1..Len(matchmakingQueue) :
          now - matchmakingQueue[k].timestamp < 300000

\* C6 as amended: after a sweep, no entry aged more than 5 minutes is in the
\* queue; no entry as old as one a sweep removed is in the queue later, and no
\* later match search selects one.
C6_EvictsOlderThanFiveMinutes ==
    /\ [](/\ resp.kind = "sweep" =>
               /\ \A k \in 1..Len(matchmakingQueue) :
                     now - matchmakingQueue[k].timestamp <= 300000
               /\ \A u \in resp.removed : u \notin Ids(matchmakingQueue)
          /\ \A k \in 1..Len(matchmakingQueue) :
                matchmakingQueue[k].timestamp > evictedTs)
    /\ [][\A i \in DOMAIN reqs :
             Selects(i) => reqs'[i].bestMatch.timestamp > evictedTs]_vars

\* A sweep has just removed an entry.
C6_Witness ==
    /\ resp.kind = "sweep"
    /\ resp.removed # {}
    /\ evictedTs >= 0

\* C7: a cancel by p answers 200 and removes p's entry when p has one, answers
\* 400 when p has none; either way the other entries stay as they are, in their
\* order, no game is created and no handler is touched.
C7_CancelFrame ==
    [][resp'.kind = "cancel" =>
          /\ resp'.userId \in Ids(matchmakingQueue) => resp'.status = 200
          /\ resp'.userId \notin Ids(matchmakingQueue) => resp'.status = 400
          /\ resp'.userId \notin Ids(matchmakingQueue')
          /\ matchmakingQueue' = Others(matchmakingQueue, resp'.userId)
          /\ games' = games
          /\ reqs' = reqs]_vars

\* A cancel has succeeded and another player's entry is still in the queue.
C7_Witness ==
    /\ resp.kind = "cancel" /\ resp.status = 200
    /\ Len(matchmakingQueue) = 1
    /\ matchmakingQueue[1].userId # resp.userId

\* C8: when a player with an entry calls startMatchmaking again and the call
\* ends "waiting", the players in the queue are the same as before, the caller
\* has exactly one entry, and it carries the time of the insertion and the
\* gameType of the new call.
C8_ReentryIdempotent ==
    [][( /\ resp'.kind = "start" /\ resp'.status = 200 /\ resp'.matched = FALSE
         /\ resp'.userId \in Ids(matchmakingQueue) )
          => /\ Ids(matchmakingQueue') = Ids(matchmakingQueue)
             /\ Len(matchmakingQueue') = Len(matchmakingQueue)
             /\ \E k \in 1..Len(matchmakingQueue') :
                   /\ matchmakingQueue'[k].userId = resp'.userId
                   /\ matchmakingQueue'[k].timestamp = now
                   /\ matchmakingQueue'[k].gameType = resp'.gameType
             /\ Others(matchmakingQueue', resp'.userId)
                   = Others(matchmakingQueue, resp'.userId)]_vars

\* A player has re-entered after the clock moved: the entry carries the new time.
C8_Witness ==
    /\ resp.kind = "start" /\ resp.status = 200
    /\ resp.matched = FALSE /\ resp.removedOld
    /\ now > 0
    /\ \E k \in 1..Len(matchmakingQueue) :
          /\ matchmakingQueue[k].userId = resp.userId
          /\ matchmakingQueue[k].timestamp = now

\* C9: a startMatchmaking handler that finds a candidate takes the candidate out
\* of the queue in that step and leaves no entry of the requester; when
\* prisma.game.create answers, exactly one row is added, IN_PROGRESS, with the
\* candidate as player1 and currentTurn and the requester as player2, and the
\* response is "matched" with that row.
C9_MatchCreatesGame ==
    [][\A i \in DOMAIN reqs :
          /\ (Selects(i) /\ reqs[i].kind = "start")
             => /\ reqs'[i].bestMatch.userId \in Ids(matchmakingQueue)
                /\ reqs'[i].bestMatch.userId \notin Ids(matchmakingQueue')
                /\ reqs[i].userId \notin Ids(matchmakingQueue')
                /\ games' = games
          /\ StartGetsGame(i)
             => /\ Len(games') = Len(games) + 1
                /\ SubSeq(games', 1, Len(games)) = games
                /\ resp'.matched = TRUE
                /\ resp'.game = games'[Len(games')]
                /\ resp'.game.player1Id = reqs[i].bestMatch.userId
                /\ resp'.game.currentTurn = reqs[i].bestMatch.userId
                /\ resp'.game.player2Id = reqs[i].userId
                /\ resp'.game.status = "IN_PROGRESS"
                /\ resp'.game.gameType = reqs[i].gameType
                /\ matchmakingQueue' = matchmakingQueue]_vars

\* A call has returned "matched": its game is the only row, the waiting player
\* moves first, and neither player is in the queue.
C9_Witness ==
    /\ resp.kind = "start" /\ resp.status = 200 /\ resp.matched = TRUE
    /\ games = <<resp.game>>
    /\ resp.game.currentTurn = resp.game.player1Id
    /\ resp.game.player2Id = resp.userId
    /\ resp.game.player1Id \notin Ids(matchmakingQueue)
    /\ resp.userId \notin Ids(matchmakingQueue)

\* The caller's entry after a "waiting" answer: one entry, stamped now.
WaitingEntryInserted ==
    /\ Cardinality({k \in 1..Len(matchmakingQueue) :
                       matchmakingQueue[k].userId = resp.userId}) = 1
    /\ \E k \in 1..Len(matchmakingQueue) :
          /\ matchmakingQueue[k].userId = resp.userId
          /\ matchmakingQueue[k].timestamp = now
          /\ matchmakingQueue[k].gameType = resp.gameType

\* C10 as claimed: a "waiting" answer reports the number of entries of the
\* caller's gameType.
C10_WaitingReportsPartitionSize ==
    (resp.kind = "start" /\ resp.status = 200 /\ resp.matched = FALSE)
       => /\ WaitingEntryInserted
          /\ resp.queuePosition
                = Cardinality(Partition(matchmakingQueue, resp.gameType))

\* C10 as amended: a "waiting" answer reports the number of entries in the
\* whole queue, all gameTypes together.
C10_WaitingReportsQueueSize ==
    (resp.kind = "start" /\ resp.status = 200 /\ resp.matched = FALSE)
       => /\ WaitingEntryInserted
          /\ resp.queuePosition = Len(matchmakingQueue)

\* A call has ended "waiting" while a player of another gameType waits too.
C10_Witness ==
    /\ resp.kind = "start" /\ resp.status = 200 /\ resp.matched = FALSE
    /\ Len(matchmakingQueue) = 2
    /\ resp.queuePosition = 2
    /\ Cardinality(Partition(matchmakingQueue, resp.gameType)) = 1

\* The entries of q a poll of gameType g by player p can select.
Candidates(q, p, g) == {k \in 1..Len(q) : q[k].userId # p /\ q[k].gameType = g}

\* Handler i of checkMatchmakingStatus runs its search in this step: the user
\* lookup has answered with a user.
StatusSearches(i) ==
    /\ i \in DOMAIN reqs'
    /\ reqs[i].pc = "findUser" /\ reqs[i].kind = "status"
    /\ reqs'[i] # reqs[i]
    /\ ~(resp'.kind = "status" /\ resp'.status = 500)

\* Handler i of checkMatchmakingStatus gets its game from prisma.game.create in this step.
StatusGetsGame(i) ==
    /\ i \in DOMAIN reqs'
    /\ reqs[i].pc = "createGame" /\ reqs[i].kind = "status"
    /\ reqs'[i].pc = "done"
    /\ resp'.status = 200

\* C11: when the search of a status poll by p (p had an entry when the poll
\* arrived, the user lookup answered) finds an entry of another player with the
\* poll's gameType, it selects one, and after the step neither p nor that player
\* has an entry while every other entry stays; when prisma.game.create answers,
\* exactly one row is added with p as player1 and currentTurn, and the response
\* is "matched" with it.  When there is no such entry the queue and the game
\* table stay as they are and the response is "waiting", inQueue, with
\* queuePosition the size of the Map.
C11_StatusMatchesOrWaits ==
    [][\A i \in DOMAIN reqs :
          /\ (StatusSearches(i)
                /\ Candidates(matchmakingQueue, reqs[i].userId, reqs[i].gameType) # {})
             => /\ reqs'[i].pc = "createGame"
                /\ \E k \in Candidates(matchmakingQueue, reqs[i].userId, reqs[i].gameType) :
                      reqs'[i].bestMatch = matchmakingQueue[k]
                /\ reqs[i].userId \notin Ids(matchmakingQueue')
                /\ reqs'[i].bestMatch.userId \notin Ids(matchmakingQueue')
                /\ matchmakingQueue' =
                      Others(Others(matchmakingQueue, reqs[i].userId),
                             reqs'[i].bestMatch.userId)
                /\ games' = games
          /\ (StatusSearches(i)
                /\ Candidates(matchmakingQueue, reqs[i].userId, reqs[i].gameType) = {})
             => /\ reqs'[i].pc = "done"
                /\ matchmakingQueue' = matchmakingQueue
                /\ games' = games
                /\ resp'.kind = "status" /\ resp'.userId = reqs[i].userId
                /\ resp'.status = 200 /\ resp'.matched = FALSE
                /\ resp'.inQueue = TRUE
                /\ resp'.queuePosition = Len(matchmakingQueue)
          /\ StatusGetsGame(i)
             => /\ Len(games') = Len(games) + 1
                /\ SubSeq(games', 1, Len(games)) = games
                /\ resp'.kind = "status" /\ resp'.userId = reqs[i].userId
                /\ resp'.matched = TRUE
                /\ resp'.game = games'[Len(games')]
                /\ resp'.game.player1Id = reqs[i].userId
                /\ resp'.game.currentTurn = reqs[i].userId
                /\ resp'.game.player2Id = reqs[i].bestMatch.userId
                /\ resp'.game.status = "IN_PROGRESS"
                /\ resp'.game.gameType = reqs[i].gameType
                /\ matchmakingQueue' = matchmakingQueue]_vars

\* A poll has returned "matched" with the game it created: the poller holds the
\* first slot and the first turn, and neither player has an entry.
C11_Witness ==
    /\ resp.kind = "status" /\ resp.status = 200 /\ resp.matched = TRUE
    /\ games = <<resp.game>>
    /\ resp.game.startedAt = now
    /\ resp.game.player1Id = resp.userId
    /\ resp.game.currentTurn = resp.userId
    /\ resp.game.player2Id # resp.userId
    /\ resp.game.player1Id \notin Ids(matchmakingQueue)
    /\ resp.game.player2Id \notin Ids(matchmakingQueue)

\* The rows of the game table that involve player p, are of gameType g, are in
\* progress and started at time t or later.
Hits(p, g, t) ==
    {k \in 1..Len(games) :
        /\ p \in {games[k].player1Id, games[k].player2Id}
        /\ games[k].gameType = g
        /\ games[k].status = "IN_PROGRESS"
        /\ games[k].startedAt >= t}

\* C12: a status poll by a player p without an entry asks for the games of p and
\* the poll's gameType that are in progress and started no more than 30 s before
\* the poll; when the lookup answers, the response is "matched" with the latest
\* such row if there is one, and matched:false, inQueue:false if there is none;
\* the step changes neither the queue nor the game table.
C12_PollWithoutEntry ==
    [][\A i \in DOMAIN reqs :
          ( /\ i \in DOMAIN reqs'
            /\ reqs[i].pc = "findRecent" /\ reqs'[i].pc = "done"
            /\ resp'.status # 500 )
          => /\ reqs[i].since <= now - 30000
             /\ matchmakingQueue' = matchmakingQueue
             /\ games' = games
             /\ resp'.kind = "status" /\ resp'.userId = reqs[i].userId
             /\ resp'.status = 200
             /\ resp'.matched = (Hits(reqs[i].userId, reqs[i].gameType, reqs[i].since) # {})
             /\ resp'.matched
                  => \E k \in Hits(reqs[i].userId, reqs[i].gameType, reqs[i].since) :
                        /\ resp'.game = games[k]
                        /\ \A l \in Hits(reqs[i].userId, reqs[i].gameType, reqs[i].since) :
                              games[l].startedAt <= games[k].startedAt
             /\ ~resp'.matched => (resp'.inQueue = FALSE /\ resp'.game = NoGame)]_vars

\* A poll without an entry has returned "matched" with the later of two rows of
\* the table, in which the poller holds the second slot, while another player
\* waits in the queue.
C12_Witness ==
    /\ resp.kind = "status" /\ resp.status = 200 /\ resp.matched = TRUE
    /\ resp.userId \notin Ids(matchmakingQueue)
    /\ Len(matchmakingQueue) = 1
    /\ Len(games) = 2
    /\ resp.game = games[2]
    /\ resp.game.player2Id = resp.userId
    /\ games[1].startedAt < games[2].startedAt
    /\ games[1].status = "IN_PROGRESS" /\ games[1].gameType = resp.gameType
    /\ games[1].player1Id = resp.userId

\* C13: when the user lookup for the requester of a start or status handler
\* answers null, the handler ends with a failure response and the step changes
\* neither the queue nor the game table; when the user lookup for the selected
\* candidate answers null, the candidate still has its entry, and the handler
\* ends with a failure response without adding a row to the game table.
C13_PlayerNotFoundKeepsQueue ==
    [][\A i \in DOMAIN reqs :
          /\ ( /\ i \in DOMAIN reqs'
               /\ reqs[i].pc = "findUser" /\ reqs'[i].pc = "done"
               /\ resp'.status \in {404, 500} )
             => /\ matchmakingQueue' = matchmakingQueue
                /\ games' = games
          /\ ( /\ i \in DOMAIN reqs'
               /\ reqs[i].pc = "findOpponent" /\ reqs'[i].pc = "createGame"
               /\ reqs'[i].opponent = "null" )
             => reqs[i].bestMatch.userId \in Ids(matchmakingQueue')
          /\ ( /\ i \in DOMAIN reqs'
               /\ reqs[i].pc = "createGame" /\ reqs[i].kind = "start"
               /\ reqs[i].opponent = "null"
               /\ reqs'[i].pc = "done" )
             => /\ resp'.status \in {404, 500}
                /\ games' = games]_vars

\* C14: the step in which a handler selects a candidate leaves neither the
\* candidate nor the requester with an entry; when prisma.game.create then
\* fails, the response is the 500 of the catch block, without a game, no row
\* is added to the game table, and the step puts nothing back: the queue stays
\* as it is, so neither entry is restored.
C14_CreateFailureNotRolledBack ==
    [][\A i \in DOMAIN reqs :
          /\ Selects(i)
             => /\ reqs'[i].bestMatch.userId \notin Ids(matchmakingQueue')
                /\ reqs[i].userId \notin Ids(matchmakingQueue')
          /\ ( /\ i \in DOMAIN reqs'
               /\ reqs[i].pc = "createGame" /\ reqs'[i].pc = "done"
               /\ ~(resp'.status = 200 /\ resp'.matched = TRUE) )
             => /\ resp'.kind = reqs[i].kind /\ resp'.userId = reqs[i].userId
                /\ resp'.status = 500
                /\ resp'.game = NoGame
                /\ games' = games
                /\ matchmakingQueue' = matchmakingQueue]_vars

\* A status poll that had selected a candidate has ended in 500: no game exists,
\* and neither the candidate nor the poller has an entry.
C14_Witness ==
    /\ resp.kind = "status" /\ resp.status = 500
    /\ games = << >>
    /\ resp.userId \notin Ids(matchmakingQueue)
    /\ \E u \in Users \ {resp.userId} : picked[u] = 1 /\ u \notin Ids(matchmakingQueue)
    /\ matchmakingQueue = << >>

\* The places of the entries of q a search for (g, ex) may return, and the
\* distance of the entry at place k from rating rt.
Eligible(q, g, ex) == {k \in 1..Len(q) : q[k].gameType = g /\ q[k].userId # ex}
Distance(q, k, rt) == IF q[k].rating > rt THEN q[k].rating - rt ELSE rt - q[k].rating

\* C15: findBestMatch(rating, gameType, excludeId) returns null exactly when the
\* Map has no entry of that gameType with another key than excludeId; otherwise
\* it returns such an entry at minimal distance |entry.rating - rating|, and of
\* the entries at that distance the first in insertion order.
C15_FindBestMatch ==
    resp.kind = "search" =>
       LET q == matchmakingQueue
           rt == reqs[1].playerRating
           el == Eligible(q, reqs[1].gameType, reqs[1].excludeUserId)
       IN  /\ (resp.bestMatch = null) <=> (el = {})
           /\ el # {} =>
                 \E k \in el :
                    /\ resp.bestMatch = q[k]
                    /\ \A l \in el : Distance(q, k, rt) <= Distance(q, l, rt)
                    /\ \A l \in el : Distance(q, l, rt) = Distance(q, k, rt) => k <= l

\* A search over three entries of the gameType has returned the second: the first
\* is farther away, the third is exactly as far as the second.
C15_Witness ==
    /\ resp.kind = "search"
    /\ Len(matchmakingQueue) = 3
    /\ Eligible(matchmakingQueue, reqs[1].gameType, reqs[1].excludeUserId) = {1, 2, 3}
    /\ resp.bestMatch = matchmakingQueue[2]
    /\ Distance(matchmakingQueue, 1, reqs[1].playerRating)
          > Distance(matchmakingQueue, 2, reqs[1].playerRating)
    /\ Distance(matchmakingQueue, 3, reqs[1].playerRating)
          = Distance(matchmakingQueue, 2, reqs[1].playerRating)
    /\ matchmakingQueue[3].rating # matchmakingQueue[2].rating

\* The entries q holds for player p.
EntriesOf(q, p) == {q[k] : k \in {j \in 1..Len(q) : q[j].userId = p}}

\* This step is the end of a startMatchmaking call of p whose search found no
\* entry of another player for its gameType: the call answers "waiting".
Enqueues(p) ==
    \E i \in DOMAIN reqs :
       /\ reqs[i].pc = "findUser" /\ reqs[i].kind = "start" /\ reqs[i].userId = p
       /\ reqs'[i].pc = "done"
       /\ resp'.kind = "start" /\ resp'.status = 200 /\ resp'.matched = FALSE
       /\ Candidates(matchmakingQueue, p, reqs[i].gameType) = {}

\* In this step a search pairs p with another player: p is the candidate
\* selected, or the search is that of p's own start or status call.
Paired(p) ==
    \E i \in DOMAIN reqs :
       /\ Selects(i)
       /\ reqs'[i].bestMatch.userId # reqs[i].userId
       /\ p \in {reqs'[i].bestMatch.userId, reqs[i].userId}

\* This step is a successful cancel of p.
Cancels(p) == resp'.kind = "cancel" /\ resp'.userId = p /\ resp'.status = 200

\* This step is a sweep that removes p's entry, which is older than 5 minutes.
Evicts(p) ==
    /\ resp'.kind = "sweep" /\ p \in resp'.removed
    /\ \A e \in EntriesOf(matchmakingQueue, p) : now - e.timestamp > 300000

\* How p's entry comes, goes and changes in a step.
Lifecycle(p) ==
    /\ (EntriesOf(matchmakingQueue', p) # {}
          /\ EntriesOf(matchmakingQueue', p) # EntriesOf(matchmakingQueue, p))
       => Enqueues(p)
    /\ (EntriesOf(matchmakingQueue, p) # {} /\ EntriesOf(matchmakingQueue', p) = {})
       => (Paired(p) \/ Cancels(p) \/ Evicts(p))

\* Handler i, which had selected a candidate, sends its response in this step.
PairingEnds(i) ==
    /\ i \in DOMAIN reqs'
    /\ reqs[i].pc \in {"findOpponent", "createGame"}
    /\ reqs'[i].pc = "done"

\* The response of handler i is "matched" with a new row of the requester and
\* the candidate.
PairingGetsGame(i) ==
    /\ resp'.status = 200 /\ resp'.matched = TRUE
    /\ games' = Append(games, resp'.game)
    /\ {resp'.game.player1Id, resp'.game.player2Id}
          = {reqs[i].userId, reqs[i].bestMatch.userId}

\* C16 as claimed: p's entry appears or changes only at the end of p's own
\* startMatchmaking call whose search found nobody; it disappears only when a
\* search pairs p with another player, when p cancels, or when a sweep evicts
\* it older than 5 minutes; and every pairing ends with a game of the pair.
C16_PairedGetsGame ==
    [][/\ \A p \in Users : Lifecycle(p)
       /\ \A i \in DOMAIN reqs : PairingEnds(i) => PairingGetsGame(i)]_vars

\* C16 as amended: the same, but a pairing ends with a game of the pair or, when
\* the candidate lookup or prisma.game.create fails, with a 500 and no game, the
\* entries staying removed.
C16_EntryLifecycle ==
    [][/\ \A p \in Users : Lifecycle(p)
       /\ \A i \in DOMAIN reqs :
             PairingEnds(i) =>
                \/ PairingGetsGame(i)
                \/ /\ resp'.status = 500
                   /\ games' = games
                   /\ matchmakingQueue' = matchmakingQueue]_vars

\* A startMatchmaking call that had taken a candidate out of the queue has ended
\* in 500: the candidate has no entry and no game exists.
C16_Witness ==
    /\ resp.kind = "start" /\ resp.status = 500
    /\ games = << >>
    /\ \E u \in Users \ {resp.userId} : picked[u] = 1 /\ u \notin Ids(matchmakingQueue)
    /\ Len(matchmakingQueue) = 1

\* The places of the entries of q that are more than 5 minutes old at time t.
Old(q, t) == {k \in 1..Len(q) : t - q[k].timestamp > 300000}

\* C17: a run of the sweep removes the entries that are older than 5 minutes and
\* no other: what stays is every entry of age 5 minutes or less, as it was
\* (userId, rating, gameType, timestamp) and in the same order; the run adds no
\* row to the game table and touches no handler.
C17_SweepFrame ==
    [][resp'.kind = "sweep" =>
          /\ resp'.removed = {matchmakingQueue[k].userId : k \in Old(matchmakingQueue, now)}
          /\ \A k \in 1..Len(matchmakingQueue) \ Old(matchmakingQueue, now) :
                \E l \in 1..Len(matchmakingQueue') :
                   matchmakingQueue'[l] = matchmakingQueue[k]
          /\ matchmakingQueue' =
                SelectSeq(matchmakingQueue, LAMBDA e : now - e.timestamp <= 300000)
          /\ games' = games
          /\ reqs' = reqs
          /\ now' = now]_vars

\* A sweep has removed an entry and left another one, which is exactly 5 minutes
\* old.
C17_Witness ==
    /\ resp.kind = "sweep" /\ resp.removed # {}
    /\ Len(matchmakingQueue) = 1
    /\ now - matchmakingQueue[1].timestamp = 300000
    /\ matchmakingQueue[1].userId \notin resp.removed

\* C18: p's entry appears or changes only at the end of p's own startMatchmaking
\* call that answers "waiting", and the entry then carries the rating the user
\* table holds for p at that step (the one the lookup returned) and the time of
\* that step; no other step, a change of p's rating in the table and p's own
\* status polls included, changes the rating or the timestamp of p's entry.
C18_RatingSnapshot ==
    [][\A p \in Users :
          /\ (EntriesOf(matchmakingQueue', p) # {}
                /\ EntriesOf(matchmakingQueue', p) # EntriesOf(matchmakingQueue, p))
             => /\ Enqueues(p)
                /\ \A e \in EntriesOf(matchmakingQueue', p) :
                      e.rating = ratingOf[p] /\ e.timestamp = now
          /\ (ratingOf'[p] # ratingOf[p]
                \/ (resp'.kind = "status" /\ resp'.userId = p)
                \/ \E i \in DOMAIN reqs :
                      /\ reqs[i].pc \in {"findUser", "findRecent", "createGame"}
                      /\ reqs[i].kind = "status" /\ reqs[i].userId = p
                      /\ reqs'[i] # reqs[i])
             => \A e \in EntriesOf(matchmakingQueue', p) :
                   e \in EntriesOf(matchmakingQueue, p)]_vars

\* A player whose rating in the table has changed since enqueueing has polled
\* and still waits: the entry carries the old rating and the old time.
C18_Witness ==
    /\ resp.kind = "status" /\ resp.status = 200
    /\ resp.matched = FALSE /\ resp.inQueue = TRUE
    /\ \E e \in EntriesOf(matchmakingQueue, resp.userId) :
          /\ e.rating # ratingOf[resp.userId]
          /\ e.timestamp < now

\* Player p has the entry inserted at time t.
HasEntry(p, t) ==
    \E k \in 1..Len(matchmakingQueue) :
       matchmakingQueue[k].userId = p /\ matchmakingQueue[k].timestamp = t

\* C19: with time advancing and the timer firing every period, every entry, the
\* one a player inserted at a given time, is eventually out of the queue: no
\* entry stays forever.
C19_EntryLeaves ==
    \A p \in Users : \A k \in 0..MaxTicks :
       HasEntry(p, k * PERIOD) ~> ~HasEntry(p, k * PERIOD)

\* The timer has just evicted two entries that nobody matched, cancelled or
\* replaced for more than 5 minutes.
C19_Witness ==
    /\ resp.kind = "sweep"
    /\ Cardinality(resp.removed) = 2
    /\ matchmakingQueue = << >>
    /\ now > TIMEOUT
    /\ games = << >>

\* C20: every gameType has at most one entry in the queue, in every state; so
\* no two players wait for the same gameType, and a search of startMatchmaking
\* that selects a candidate had exactly that one entry to choose from.
C20_OnePerPartition ==
    /\ [](\A g \in GameTypes : Cardinality(Partition(matchmakingQueue, g)) <= 1)
    /\ [][\A i \in DOMAIN reqs :
             (Selects(i) /\ reqs[i].kind = "start")
                => Cardinality(Candidates(matchmakingQueue, reqs[i].userId,
                                          reqs[i].gameType)) = 1]_vars

\* A startMatchmaking call has just taken the one waiting player of its gameType
\* out of the queue; the player of the other gameType goes on waiting.
C20_Witness ==
    /\ \E i \in DOMAIN reqs :
          /\ reqs[i].pc = "findOpponent"
          /\ Len(matchmakingQueue) = 1
          /\ matchmakingQueue[1].gameType # reqs[i].gameType
          /\ matchmakingQueue[1].userId # reqs[i].userId
    /\ picked[matchmakingQueue[1].userId] = 0

\* The number of rows of the game table that involve player p.
GamesOf(p) ==
    Cardinality({k \in 1..Len(games) : p \in {games[k].player1Id, games[k].player2Id}})

\* C21: for every player, the games created that involve the player are never
\* more than the startMatchmaking calls the player has made.
C21_GamesWithinEnqueues ==
    \A p \in Users : GamesOf(p) <= history[p].enqueues

\* Player p's last successful cancel has not been followed by a startMatchmaking
\* call of p.
Cancelled(p) == history[p].cancelled >= 0

\* No row added to the game table since p's last successful cancel involves p.
NoGameSinceCancel(p) ==
    \A k \in 1..Len(games) :
       k > history[p].cancelled => p \notin {games[k].player1Id, games[k].player2Id}

AnswersWaiting ==
    /\ resp.kind = "status"
    /\ resp.status = 200
    /\ resp.matched = FALSE
    /\ resp.inQueue = TRUE

\* C23: when checkMatchmakingStatus answers inQueue: true, the polling player
\* has an entry in the queue at the moment the answer is produced.
C23_WaitingMeansInQueue ==
    AnswersWaiting => resp.userId \in Ids(matchmakingQueue)
====
